---- MODULE Spec2Model ----
(***************************************************************************)
(* TokenManager (src/utils/token_manager.py) and CodeAnalyzer              *)
(* (src/utils/code_analyzer.py): the token ledger, relationship scoring    *)
(* and the hierarchical context assembly.                                  *)
(*                                                                         *)
(* Strings are sequences of one-character strings, so that lower(),        *)
(* substring tests, endswith() and path splitting are computed.  Scores    *)
(* are fixed point: sub-scores in hundredths, totals and priorities in     *)
(* thousandths.                                                            *)
(***************************************************************************)
EXTENDS Integers, Sequences, FiniteSets, TLC

VARIABLES
    max_tokens,         \* TokenManager.max_tokens
    current_tokens,     \* TokenManager.current_tokens
    content_tokens,     \* TokenManager.content_tokens : key -> token count
    target_priorities,  \* TokenManager.target_priorities : path -> priority
    file_patterns,      \* TokenManager.file_patterns : [items, hashable]
    lru,                \* the lru_cache of analyze_file_relationships
    ret,                \* the last call: operation, arguments, outcome
    calls,              \* number of ledger calls made so far
    pc                  \* the caller: "fresh" until its scoring or assembly
                        \* call is made, then "returned"

vars == <<max_tokens, current_tokens, content_tokens, target_priorities,
          file_patterns, lru, ret, calls, pc>>

-----------------------------------------------------------------------------
(* Bounds of the model *)

\* direct add_content / remove_content calls in one behaviour
MaxCalls == 4

\* files handed to one call
MaxFiles == 3

\* the largest max_files_per_level tried
MaxCap == 3

\* files of the corpus besides the one a scoring step is made for
MaxOthers == 1

\* calls of create_hierarchical_context on one manager
MaxRuns == 2

-----------------------------------------------------------------------------
(* Strings *)

Upper == {"A", "B", "T"}

LowerChar(c) ==
    CASE c = "A" -> "a"
      [] c = "B" -> "b"
      [] c = "T" -> "t"
      [] OTHER -> c

\* str.lower()
Lower(s) == [i \in 1..Len(s) |-> LowerChar(s[i])]

\* `sub in s`
Contains(sub, s) ==
    \E i \in 1..(Len(s) - Len(sub) + 1) : SubSeq(s, i, i + Len(sub) - 1) = sub

\* s.endswith(suffix)
EndsWith(s, suffix) ==
    /\ Len(s) >= Len(suffix)
    /\ SubSeq(s, Len(s) - Len(suffix) + 1, Len(s)) = suffix

\* s.split(sep) for a one-character sep
RECURSIVE Split(_, _)
Split(s, sep) ==
    IF \A i \in 1..Len(s) : s[i] # sep
    THEN <<s>>
    ELSE LET i == CHOOSE j \in 1..Len(s) :
                      s[j] = sep /\ \A k \in 1..(j - 1) : s[k] # sep
         IN  <<SubSeq(s, 1, i - 1)>> \o Split(SubSeq(s, i + 1, Len(s)), sep)

\* dict helpers
EmptyMap == [k \in {} |-> 0]

Put(m, k, v) == [x \in (DOMAIN m) \cup {k} |-> IF x = k THEN v ELSE m[x]]

Del(m, k) == [x \in (DOMAIN m) \ {k} |-> m[x]]

\* dict.get(k, default)
Get(m, k, default) == IF k \in DOMAIN m THEN m[k] ELSE default

\* dict.update(other)
Update(m, other) ==
    [x \in (DOMAIN m) \cup (DOMAIN other) |->
        IF x \in DOMAIN other THEN other[x] ELSE m[x]]

Min(a, b) == IF a <= b THEN a ELSE b

Max(a, b) == IF a >= b THEN a ELSE b

\* F(v), with v computed once
With(v, F(_)) == CHOOSE y \in {F(x) : x \in {v}} : TRUE

RECURSIVE SumSeq(_)
SumSeq(s) == IF s = <<>> THEN 0 ELSE Head(s) + SumSeq(Tail(s))

-----------------------------------------------------------------------------
(* Texts.  A content is the sequence of its lines (content.split('\n')); a   *)
(* line carries what the tokenizer and the syntax tree see of it: its token  *)
(* count, its character count and the statement it holds.                    *)

\* kind: "import" (import name), "from" (from name import ..), "class"
\* (a class definition with bases), "call" (a call expression; form is
\* "name" for f(), "attr" for x.f(), "other" otherwise), "text" (anything
\* else), "bad" (a line the parser rejects)
Line(kind, name, form, bases, toks, chars) ==
    [kind |-> kind, name |-> name, form |-> form, bases |-> bases,
     toks |-> toks, chars |-> chars]

Base(form, id) == [form |-> form, id |-> id]

TextLine == Line("text", <<>>, "", <<>>, 3, 5)

\* a file's content, by name; Lines gives its lines
Source(id) == [kind |-> "source", id |-> id]

C_empty == Source("")

C_imp == Source("import b.x\nb()")

C_text == Source("five plain lines")

C_cls == Source("class K(B, m.B): pass")

C_bad == Source("def f(:")

C_long == Source("import b.x\nb()\nand twelve plain lines")

C_rich == Source("import b.x\nclass K(B, m.B): pass\nclass L(B): pass\nb()")

Contents == {C_empty, C_imp, C_text, C_cls, C_bad, C_long, C_rich}

\* content.split('\n'), each line as the parser and the tokenizer see it
Lines(content) ==
    CASE content = C_empty -> <<Line("text", <<>>, "", <<>>, 0, 0)>>
      [] content = C_imp ->
            <<Line("import", <<"b", ".", "x">>, "", <<>>, 4, 10),
              Line("call", <<"b">>, "name", <<>>, 3, 3)>>
      [] content = C_text -> [i \in 1..5 |-> TextLine]
      [] content = C_cls ->
            <<Line("class", <<"K">>, "",
                   <<Base("name", <<"B">>), Base("attr", <<"B">>)>>, 11, 21)>>
      [] content = C_rich ->
            <<Line("import", <<"b", ".", "x">>, "", <<>>, 4, 10),
              Line("class", <<"K">>, "",
                   <<Base("name", <<"B">>), Base("attr", <<"B">>)>>, 11, 21),
              Line("class", <<"L">>, "", <<Base("name", <<"B">>)>>, 7, 16),
              Line("call", <<"b">>, "name", <<>>, 3, 3)>>
      [] content = C_bad -> <<Line("bad", <<>>, "", <<>>, 4, 7)>>
      [] content = C_long ->
            <<Line("import", <<"b", ".", "x">>, "", <<>>, 4, 10),
              Line("call", <<"b">>, "name", <<>>, 3, 3)>>
            \o [i \in 1..12 |-> TextLine]

\* len(content)
StrLen(content) ==
    SumSeq([i \in 1..Len(Lines(content)) |-> Lines(content)[i].chars])
    + (Len(Lines(content)) - 1)

\* the number of lines content.split('\n')[:10] keeps
PreviewLines == 10

\* the tokens of the fixed words of a summary: "File: ", "Size: ",
\* " chars", "Preview:", the three line ends and the "..."
TemplateTokens == 12

\* _create_file_summary(path, content)
_create_file_summary(path, content) ==
    [kind |-> "summary", File |-> path, Size |-> StrLen(content),
     Preview |-> content]

\* the lines of a summary's preview: content.split('\n')[:10]
PreviewOf(summary) ==
    SubSeq(Lines(summary.Preview), 1,
           Min(PreviewLines, Len(Lines(summary.Preview))))

\* the tokens of a path: one per segment and one per separator or extension
PathTokens(path) == 2 * Len(Split(path, "/"))

\* count_tokens(text) = len(encoding.encode(text)): the tokens of the lines
\* and of the line ends between them; ''.join(lines) of a summary has no
\* line ends
count_tokens(text) ==
    IF text.kind = "summary"
    THEN TemplateTokens + PathTokens(text.File) + 1
         + SumSeq([i \in 1..Len(PreviewOf(text)) |-> PreviewOf(text)[i].toks])
    ELSE SumSeq([i \in 1..Len(Lines(text)) |-> Lines(text)[i].toks])
         + (Len(Lines(text)) - 1)

-----------------------------------------------------------------------------
(* The token ledger.  A ledger value is [current_tokens, content_tokens]. *)

Ledger(cur, toks) == [current_tokens |-> cur, content_tokens |-> toks]

\* add_content, with the rejection test in the wrong place: the key is
\* recorded before the budget is looked at
add_content_recording(L, key, content) ==
    LET tokens == count_tokens(content)
    IN  IF L.current_tokens + tokens > max_tokens
        THEN [ok |-> FALSE,
              ledger |-> Ledger(L.current_tokens,
                                Put(L.content_tokens, key, tokens))]
        ELSE [ok |-> TRUE,
              ledger |-> Ledger(L.current_tokens + tokens,
                                Put(L.content_tokens, key, tokens))]

\* add_content, testing the new content alone against the ceiling
add_content_alone(L, key, content) ==
    LET tokens == count_tokens(content)
    IN  IF tokens > max_tokens
        THEN [ok |-> FALSE, ledger |-> L]
        ELSE [ok |-> TRUE,
              ledger |-> Ledger(L.current_tokens + tokens,
                                Put(L.content_tokens, key, tokens))]

\* add_content, giving back the count of a key it admits again
add_content_replacing(L, key, content) ==
    LET tokens == count_tokens(content)
        held == Get(L.content_tokens, key, 0)
    IN  IF L.current_tokens + tokens > max_tokens
        THEN [ok |-> FALSE, ledger |-> L]
        ELSE [ok |-> TRUE,
              ledger |-> Ledger(L.current_tokens - held + tokens,
                                Put(L.content_tokens, key, tokens))]

\* add_content(key, content): the returned bool and the ledger afterwards
add_content(L, key, content) ==
    LET tokens == count_tokens(content)
    IN  IF L.current_tokens + tokens > max_tokens
        THEN [ok |-> FALSE, ledger |-> L]
        ELSE [ok |-> TRUE,
              ledger |-> Ledger(L.current_tokens + tokens,
                                Put(L.content_tokens, key, tokens))]

\* remove_content, forgetting the key without giving its tokens back
remove_content_keeping(L, key) ==
    IF key \in DOMAIN L.content_tokens
    THEN Ledger(L.current_tokens, Del(L.content_tokens, key))
    ELSE L

\* remove_content(key)
remove_content(L, key) ==
    IF key \in DOMAIN L.content_tokens
    THEN Ledger(L.current_tokens - L.content_tokens[key],
                Del(L.content_tokens, key))
    ELSE L

\* get_available_tokens()
get_available_tokens(L) == max_tokens - L.current_tokens

-----------------------------------------------------------------------------
(* RelationshipScore and the scorer of CodeAnalyzer *)

RelationshipScore(di, inh, fc, sem) ==
    [direct_import |-> di, inheritance |-> inh,
     function_calls |-> fc, semantic |-> sem]

\* RelationshipScore(): the default, all 0.0
ZeroScore == RelationshipScore(0, 0, 0, 0)

\* float('nan'): a sub-score or total that is no number.  Every number the
\* scorer computes is at least 0; NaN stands apart from them, and, like
\* nan, is not above 0
NaN == 0 - 1

\* total(): the sub-scores are hundredths, the total is thousandths; a sum
\* with nan is nan
total(score) ==
    IF score.semantic = NaN THEN NaN
    ELSE 3 * score.direct_import + 3 * score.inheritance
         + 2 * score.function_calls + 2 * score.semantic

\* any(target.lower() in name.lower() for target in target_list)
MatchesTarget(name, target_list) ==
    \E target \in target_list : Contains(Lower(target), Lower(name))

\* _is_target_class(class_name, target_list)
_is_target_class(class_name, target_list) ==
    MatchesTarget(class_name, target_list)

\* _is_target_function(func_name, target_list)
_is_target_function(func_name, target_list) ==
    MatchesTarget(func_name, target_list)

\* ast.parse(content) raises SyntaxError
SyntaxError(content) ==
    \E i \in 1..Len(Lines(content)) : Lines(content)[i].kind = "bad"

\* _extract_imports(tree): name.split('.')[0] of every import
_extract_imports(content) ==
    {Split(Lines(content)[i].name, ".")[1] :
        i \in {j \in 1..Len(Lines(content)) :
                 Lines(content)[j].kind \in {"import", "from"}}}

\* _calculate_import_score(imports, target_list)
_calculate_import_score(imports, target_list) ==
    LET direct_matches ==
            Cardinality({imp \in imports : MatchesTarget(imp, target_list)})
    IN  Min(80, direct_matches * 20)

\* the score one class definition adds: 0.3 per matching plain base, 0.2
\* per matching attribute base
RECURSIVE BasesScore(_, _)
BasesScore(bases, target_list) ==
    IF bases = <<>> THEN 0
    ELSE LET base == Head(bases)
             here == IF base.form = "name"
                     THEN IF _is_target_class(base.id, target_list)
                          THEN 30 ELSE 0
                     ELSE IF base.form = "attr"
                          THEN IF _is_target_class(base.id, target_list)
                               THEN 20 ELSE 0
                          ELSE 0
         IN  here + BasesScore(Tail(bases), target_list)

\* _analyze_inheritance_py(tree, target_list)
_analyze_inheritance_py(content, target_list) ==
    Min(90, SumSeq([i \in 1..Len(Lines(content)) |->
                      IF Lines(content)[i].kind = "class"
                      THEN BasesScore(Lines(content)[i].bases, target_list)
                      ELSE 0]))

\* _analyze_function_calls_py(tree, target_list)
_analyze_function_calls_py(content, target_list) ==
    Min(70, SumSeq([i \in 1..Len(Lines(content)) |->
                      IF /\ Lines(content)[i].kind = "call"
                         /\ Lines(content)[i].form \in {"name", "attr"}
                         /\ _is_target_function(Lines(content)[i].name,
                                                target_list)
                      THEN 10 ELSE 0]))

\* the extensions _analyze_file_relationships knows
Ext(chars) == <<".">> \o chars

PyExt == Ext(<<"p", "y">>)

\* the three structural sub-scores of lines 64-84, before the semantic one,
\* for a .py path; exc says whether the parse raised.  Every path of the
\* inputs below ends in .py; a path with none of the extensions of lines
\* 64-83 gets no structural sub-score.
Structural(path, content, target_list) ==
    IF EndsWith(path, PyExt)
    THEN IF SyntaxError(content)
         THEN [exc |-> TRUE, score |-> ZeroScore]
         ELSE [exc |-> FALSE,
               score |-> RelationshipScore(
                   _calculate_import_score(_extract_imports(content),
                                           target_list),
                   _analyze_inheritance_py(content, target_list),
                   _analyze_function_calls_py(content, target_list),
                   0)]
    ELSE [exc |-> FALSE, score |-> ZeroScore]

\* target_context of _analyze_semantic_relationship is not empty: some file
\* of files_data has a path matching a target
HasTargetContext(files_data, target_list) ==
    \E i \in 1..Len(files_data) :
        MatchesTarget(files_data[i].path, target_list)

\* what semantic_analizes(prompt) can answer: a number (in hundredths),
\* "nan", a text that float() rejects, or an exception
Num(v) == [kind |-> "num", v |-> v]

NanText == [kind |-> "nan", v |-> 0]

NotANumber == [kind |-> "text", v |-> 0]

Raises == [kind |-> "raise", v |-> 0]

OracleAnswers == {Num(25), NotANumber, Raises}

\* the answers that give different scores: an exception of the oracle and an
\* answer that is no number both leave the semantic sub-score at 0.0
ScoringAnswers == {Num(25), NotANumber}

\* a scorer that takes an answer that is no number for the highest score
_analyze_semantic_relationship_trusting(files_data, target_list, answer) ==
    IF target_list = {} \/ ~HasTargetContext(files_data, target_list)
    THEN [semantic |-> 0, invoked |-> FALSE, exc |-> FALSE]
    ELSE IF answer.kind = "raise"
    THEN [semantic |-> 0, invoked |-> TRUE, exc |-> TRUE]
    ELSE IF answer.kind = "text"
    THEN [semantic |-> 40, invoked |-> TRUE, exc |-> FALSE]
    ELSE [semantic |-> Min(Max(answer.v, 0), 40),
          invoked |-> TRUE, exc |-> FALSE]

\* _analyze_semantic_relationship(content, files_data, target_list) when
\* the oracle answers `answer`: the sub-score, whether the oracle was
\* invoked, whether an exception leaves the function
_analyze_semantic_relationship(files_data, target_list, answer) ==
    IF target_list = {}
    THEN [semantic |-> 0, invoked |-> FALSE, exc |-> FALSE]
    ELSE IF ~HasTargetContext(files_data, target_list)
    THEN [semantic |-> 0, invoked |-> FALSE, exc |-> FALSE]
    ELSE IF answer.kind = "raise"
    THEN [semantic |-> 0, invoked |-> TRUE, exc |-> TRUE]
    ELSE IF answer.kind = "text"
    THEN [semantic |-> 0, invoked |-> TRUE, exc |-> FALSE]
    ELSE IF answer.kind = "nan"
    THEN [semantic |-> NaN, invoked |-> TRUE, exc |-> FALSE]
    ELSE [semantic |-> Min(Max(answer.v, 0), 40),
          invoked |-> TRUE, exc |-> FALSE]

\* a scorer that asks the oracle whatever the structural total is
_analyze_file_relationships_asking(path, content, target_list, files_data, answer) ==
    With(Structural(path, content, target_list), LAMBDA st :
        IF st.exc
        THEN [score |-> st.score, invoked |-> FALSE, caught |-> TRUE]
        ELSE With(_analyze_semantic_relationship(files_data, target_list,
                                                 answer), LAMBDA sem :
                 [score |-> [st.score EXCEPT !.semantic = sem.semantic],
                  invoked |-> sem.invoked, caught |-> sem.exc]))

\* _analyze_file_relationships(path, content, target_list), with
\* self._files_data = files_data and the oracle answering `answer`
_analyze_file_relationships(path, content, target_list, files_data, answer) ==
    With(Structural(path, content, target_list), LAMBDA st :
        IF st.exc
        THEN [score |-> st.score, invoked |-> FALSE, caught |-> TRUE]
        ELSE IF total(st.score) < 300
        THEN With(_analyze_semantic_relationship(files_data, target_list,
                                                 answer), LAMBDA sem :
                 [score |-> [st.score EXCEPT !.semantic = sem.semantic],
                  invoked |-> sem.invoked, caught |-> sem.exc])
        ELSE [score |-> st.score, invoked |-> FALSE, caught |-> FALSE])

\* the loop of analyze_file_relationships over files_data[from..]:
\* priorities gets every path whose total is above 0
RECURSIVE ScoreLoop(_, _, _, _, _)
ScoreLoop(files_data, target_list, answers, i, acc) ==
    IF i > Len(files_data) THEN acc
    ELSE With(_analyze_file_relationships(files_data[i].path,
                  files_data[i].content, target_list, files_data,
                  Get(answers, i, NotANumber)), LAMBDA r :
         With([priorities |->
                   IF total(r.score) > 0
                   THEN Put(acc.priorities, files_data[i].path,
                            total(r.score))
                   ELSE acc.priorities,
               log |-> Append(acc.log,
                   [path |-> files_data[i].path, score |-> r.score,
                    invoked |-> r.invoked, caught |-> r.caught,
                    answer |-> Get(answers, i, NotANumber)])],
              LAMBDA next :
                 ScoreLoop(files_data, target_list, answers, i + 1, next)))

\* the body of analyze_file_relationships(files_data, file_patterns,
\* target_list): the priorities and, per file, what was computed
ScoreBody(files_data, target_list, answers) ==
    IF target_list = {}
    THEN [priorities |-> EmptyMap, log |-> <<>>]
    ELSE ScoreLoop(files_data, target_list, answers, 1,
                   [priorities |-> EmptyMap, log |-> <<>>])

\* the positions of files_data at which the scorer invokes the oracle
OracleCallers(files_data, target_list) ==
    {i \in 1..Len(files_data) :
        _analyze_file_relationships(files_data[i].path, files_data[i].content,
                                    target_list, files_data,
                                    NotANumber).invoked}

\* An optional set argument: None, a set or a frozenset.  A call's
\* collections are all mutable (list, set) or all immutable (tuple,
\* frozenset): `frozen` of its files_data says which.
None == [given |-> FALSE, items |-> {}, frozen |-> TRUE]

SetOf(items) == [given |-> TRUE, items |-> items, frozen |-> FALSE]

FrozenSetOf(items) == [given |-> TRUE, items |-> items, frozen |-> TRUE]

\* bool(x) of an optional set
Truthy(x) == x.given /\ x.items # {}

\* a sequence argument: a list (not hashable) or a tuple
ListOf(files) == [items |-> files, frozen |-> FALSE]

TupleOf(files) == [items |-> files, frozen |-> TRUE]

\* the key lru_cache makes of the arguments; the call raises TypeError when
\* one of them cannot be hashed
CacheKey(files_data, file_patterns_arg, target_list_arg) ==
    <<files_data.items,
      [given |-> file_patterns_arg.given, items |-> file_patterns_arg.items],
      [given |-> target_list_arg.given, items |-> target_list_arg.items]>>

\* hash() of the three arguments succeeds
Hashable(files_data, file_patterns_arg, target_list_arg) ==
    files_data.frozen /\ file_patterns_arg.frozen /\ target_list_arg.frozen

\* analyze_file_relationships(files_data, file_patterns, target_list) under
\* @lru_cache, with the cache `cache`: the exception or the priorities, the
\* per-file log of what the body computed, and the cache afterwards
analyze_file_relationships(files_data, file_patterns_arg, target_list_arg, answers, cache) ==
    LET key == CacheKey(files_data, file_patterns_arg, target_list_arg)
    IN  IF ~Hashable(files_data, file_patterns_arg, target_list_arg)
        THEN [exc |-> "TypeError", priorities |-> EmptyMap, log |-> <<>>,
              hit |-> FALSE, lru |-> cache]
        ELSE IF key \in DOMAIN cache
        THEN [exc |-> "none", priorities |-> cache[key], log |-> <<>>,
              hit |-> TRUE, lru |-> cache]
        ELSE With(ScoreBody(files_data.items,
                            IF Truthy(target_list_arg)
                            THEN target_list_arg.items ELSE {},
                            answers), LAMBDA body :
                 [exc |-> "none", priorities |-> body.priorities,
                  log |-> body.log, hit |-> FALSE,
                  lru |-> Put(cache, key, body.priorities)])

-----------------------------------------------------------------------------
(* Paths and levels *)

Slash == "/"

DotDot == <<".", ".">>

\* the number of leading slashes os.path.normpath keeps: 0, 1 or 2
InitialSlashes(path) ==
    IF Len(path) >= 1 /\ path[1] = Slash
    THEN IF Len(path) >= 2 /\ path[2] = Slash
            /\ ~(Len(path) >= 3 /\ path[3] = Slash)
         THEN 2 ELSE 1
    ELSE 0

\* the loop of normpath over the components
RECURSIVE NormComps(_, _, _)
NormComps(comps, new_comps, initial_slashes) ==
    IF comps = <<>> THEN new_comps
    ELSE LET comp == Head(comps)
             n == Len(new_comps)
         IN  IF comp = <<>> \/ comp = <<".">>
             THEN NormComps(Tail(comps), new_comps, initial_slashes)
             ELSE IF \/ comp # DotDot
                     \/ (initial_slashes = 0 /\ n = 0)
                     \/ (n > 0 /\ new_comps[n] = DotDot)
             THEN NormComps(Tail(comps), Append(new_comps, comp),
                            initial_slashes)
             ELSE IF n > 0
             THEN NormComps(Tail(comps), SubSeq(new_comps, 1, n - 1),
                            initial_slashes)
             ELSE NormComps(Tail(comps), new_comps, initial_slashes)

\* '/'.join(comps)
RECURSIVE Join(_)
Join(comps) ==
    IF comps = <<>> THEN <<>>
    ELSE IF Len(comps) = 1 THEN comps[1]
    ELSE comps[1] \o <<Slash>> \o Join(Tail(comps))

\* os.path.normpath(path)
normpath(path) ==
    IF path = <<>> THEN <<".">>
    ELSE LET k == InitialSlashes(path)
             joined == [i \in 1..k |-> Slash]
                       \o Join(NormComps(Split(path, Slash), <<>>, k))
         IN  IF joined = <<>> THEN <<".">> ELSE joined

\* len(os.path.normpath(path).split(os.sep))
Depth(path) == Len(Split(normpath(path), Slash))

\* "test" in path.lower()
IsTest(path) == Contains(<<"t", "e", "s", "t">>, Lower(path))

\* hierarchy[depth], a file filed under its depth and every deeper one
LevelFiles_upto(files_data, depth) ==
    SelectSeq(files_data, LAMBDA f : Depth(f.path) <= depth)

\* hierarchy[depth]: the files of one depth, in the order of files_data
RECURSIVE LevelFiles(_, _)
LevelFiles(files_data, depth) ==
    IF files_data = <<>> THEN <<>>
    ELSE IF Depth(Head(files_data).path) = depth
    THEN <<Head(files_data)>> \o LevelFiles(Tail(files_data), depth)
    ELSE LevelFiles(Tail(files_data), depth)

\* hierarchy.keys()
Depths(files_data) ==
    {Depth(files_data[i].path) : i \in 1..Len(files_data)}

\* tuple comparison: a < b
RECURSIVE TupleLess(_, _)
TupleLess(a, b) ==
    IF a = <<>> THEN b # <<>>
    ELSE IF b = <<>> THEN FALSE
    ELSE IF Head(a) < Head(b) THEN TRUE
    ELSE IF Head(a) > Head(b) THEN FALSE
    ELSE TupleLess(Tail(a), Tail(b))

\* list.sort(key=...) on [key, item] pairs: stable, ascending
RECURSIVE SortPairs(_)
SortPairs(pairs) ==
    IF pairs = <<>> THEN <<>>
    ELSE With(SortPairs(SubSeq(pairs, 1, Len(pairs) - 1)), LAMBDA front :
             LET x == pairs[Len(pairs)]
                 \* x goes after every element that does not sort after it
                 k == Cardinality({i \in 1..Len(front) :
                                     ~TupleLess(x.key, front[i].key)})
             IN  SubSeq(front, 1, k) \o <<x>>
                 \o SubSeq(front, k + 1, Len(front)))

Items(pairs) == [i \in 1..Len(pairs) |-> pairs[i].item]

Bool(b) == IF b THEN 1 ELSE 0

-----------------------------------------------------------------------------
(* The context assembly *)

FullPrefix == <<"f", "u", "l", "l", "_">>

SummaryPrefix == <<"s", "u", "m", "m", "a", "r", "y", "_">>

\* f"full_{path}"
FullKey(path) == FullPrefix \o path

\* f"summary_{path}"
SummaryKey(path) == SummaryPrefix \o path

File(path, content) == [path |-> path, content |-> content]

\* level_files[:max_files_per_level], taking one file too many
TakeOneMore(level_files, max_files_per_level) ==
    SubSeq(level_files, 1, Min(max_files_per_level + 1, Len(level_files)))

\* level_files[:max_files_per_level]
Take(level_files, max_files_per_level) ==
    SubSeq(level_files, 1, Min(max_files_per_level, Len(level_files)))

\* sorted(hierarchy.keys())
RECURSIVE SortedDepths(_)
SortedDepths(depths) ==
    IF depths = {} THEN <<>>
    ELSE LET d == CHOOSE x \in depths : \A y \in depths : x <= y
         IN  <<d>> \o SortedDepths(depths \ {d})

\* What one attempt of the admission loop did: the budget left when the
\* full content was tried, and the two admissions
Attempt(f, depth, available, full, summary) ==
    [file |-> f, depth |-> depth, available |-> available,
     full |-> full, summary |-> summary]

\* the key of the basic sort (lines 130-133)
BasicKey(f) == <<Bool(IsTest(f.path)), 0 - StrLen(f.content)>>

\* level_files.sort(...) of _create_basic_context
BasicSort(level_files) ==
    Items(SortPairs([i \in 1..Len(level_files) |->
                       [key |-> BasicKey(level_files[i]),
                        item |-> level_files[i]]]))

\* the loop body of _create_basic_context, charging the summary key with
\* the full content
BasicStep_charging_content(f, depth, st) ==
    With(add_content(st.ledger, FullKey(f.path), f.content), LAMBDA full :
    With(get_available_tokens(st.ledger), LAMBDA available :
        IF full.ok
        THEN [ledger |-> full.ledger,
              level_context |-> Append(st.level_context,
                  [path |-> f.path, type |-> "full", content |-> f.content]),
              trace |-> Append(st.trace,
                  Attempt(f, depth, available, TRUE, FALSE))]
        ELSE With(_create_file_summary(f.path, f.content), LAMBDA summary :
             With(add_content(full.ledger, SummaryKey(f.path), f.content),
                  LAMBDA short :
                 IF short.ok
                 THEN [ledger |-> short.ledger,
                       level_context |-> Append(st.level_context,
                           [path |-> f.path, type |-> "summary",
                            content |-> summary]),
                       trace |-> Append(st.trace,
                           Attempt(f, depth, available, FALSE, TRUE))]
                 ELSE [ledger |-> short.ledger,
                       level_context |-> st.level_context,
                       trace |-> Append(st.trace,
                           Attempt(f, depth, available, FALSE,
                                   FALSE))]))))

\* one pass of the loop that gives up on a file whose full content is
\* rejected, without trying its summary
BasicStep_full_only(f, depth, st) ==
    With(add_content(st.ledger, FullKey(f.path), f.content), LAMBDA full :
    With(get_available_tokens(st.ledger), LAMBDA available :
        IF full.ok
        THEN [ledger |-> full.ledger,
              level_context |-> Append(st.level_context,
                  [path |-> f.path, type |-> "full", content |-> f.content]),
              trace |-> Append(st.trace,
                  Attempt(f, depth, available, TRUE, FALSE))]
        ELSE [ledger |-> full.ledger,
              level_context |-> st.level_context,
              trace |-> Append(st.trace,
                  Attempt(f, depth, available, FALSE, FALSE))]))

\* one pass of the loop over selected_files of _create_basic_context
\* (lines 139-154): file f at depth `depth`, from st
BasicStep(f, depth, st) ==
    With(add_content(st.ledger, FullKey(f.path), f.content), LAMBDA full :
    With(get_available_tokens(st.ledger), LAMBDA available :
        IF full.ok
        THEN [ledger |-> full.ledger,
              level_context |-> Append(st.level_context,
                  [path |-> f.path, type |-> "full", content |-> f.content]),
              trace |-> Append(st.trace,
                  Attempt(f, depth, available, TRUE, FALSE))]
        ELSE With(_create_file_summary(f.path, f.content), LAMBDA summary :
             With(add_content(full.ledger, SummaryKey(f.path), summary),
                  LAMBDA short :
                 IF short.ok
                 THEN [ledger |-> short.ledger,
                       level_context |-> Append(st.level_context,
                           [path |-> f.path, type |-> "summary",
                            content |-> summary]),
                       trace |-> Append(st.trace,
                           Attempt(f, depth, available, FALSE, TRUE))]
                 ELSE [ledger |-> short.ledger,
                       level_context |-> st.level_context,
                       trace |-> Append(st.trace,
                           Attempt(f, depth, available, FALSE,
                                   FALSE))]))))

\* the loop over selected_files of _create_basic_context
RECURSIVE BasicAdmit(_, _, _, _)
BasicAdmit(selected_files, i, depth, st) ==
    IF i > Len(selected_files) THEN st
    ELSE With(BasicStep(selected_files[i], depth, st), LAMBDA next :
             BasicAdmit(selected_files, i + 1, depth, next))

\* one pass of the loop over sorted(hierarchy.keys()) (lines 126-157)
BasicLevel(files_data, max_files_per_level, depth, st) ==
    With(BasicSort(LevelFiles(files_data, depth)), LAMBDA level_files :
    With(BasicAdmit(Take(level_files, max_files_per_level), 1, depth,
                    [ledger |-> st.ledger, level_context |-> <<>>,
                     trace |-> st.trace]), LAMBDA done :
        [ledger |-> done.ledger,
         levels |-> IF done.level_context # <<>>
                    THEN Put(st.levels, depth, done.level_context)
                    ELSE st.levels,
         order |-> Put(st.order, depth, level_files),
         trace |-> done.trace]))

\* the loop over sorted(hierarchy.keys()) of _create_basic_context
RECURSIVE BasicLevels(_, _, _, _)
BasicLevels(files_data, max_files_per_level, depths, st) ==
    IF depths = <<>> THEN st
    ELSE With(BasicLevel(files_data, max_files_per_level, Head(depths), st),
              LAMBDA next :
                 BasicLevels(files_data, max_files_per_level, Tail(depths),
                             next))

\* _create_basic_context(files_data, max_files_per_level) from ledger L:
\* the context, the ledger afterwards, and what the loops did
_create_basic_context(L, files_data, max_files_per_level) ==
    With(BasicLevels(files_data, max_files_per_level,
                     SortedDepths(Depths(files_data)),
                     [ledger |-> L, levels |-> EmptyMap,
                      order |-> EmptyMap, trace |-> <<>>]), LAMBDA st :
        [exc |-> "none",
         context |-> [levels |-> st.levels,
                      file_summaries |-> EmptyMap,
                      total_files |-> Len(files_data)],
         ledger |-> st.ledger,
         order |-> st.order,
         trace |-> st.trace])

\* the loop of lines 166-167: add_content(path, content) for every file
RECURSIVE PreAnalyze(_, _)
PreAnalyze(L, files_data) ==
    IF files_data = <<>> THEN L
    ELSE With(add_content(L, Head(files_data).path,
                          Head(files_data).content).ledger, LAMBDA next :
                 PreAnalyze(next, Tail(files_data)))

\* len([t for t in target_list if t.lower() in path.lower()])
DirectMatches(path, target_list) ==
    Cardinality({t \in target_list : Contains(Lower(t), Lower(path))})

\* the key of the targeted sort, the priority not negated
TargetedKey_ascending(f, target_list, priorities) ==
    <<0 - DirectMatches(f.path, target_list),
      Get(priorities, f.path, 0),
      Bool(IsTest(f.path)),
      0 - StrLen(f.content)>>

\* the key of the targeted sort (lines 197-202)
TargetedKey(f, target_list, priorities) ==
    <<0 - DirectMatches(f.path, target_list),
      0 - Get(priorities, f.path, 0),
      Bool(IsTest(f.path)),
      0 - StrLen(f.content)>>

\* level_files.sort(...) of _create_targeted_context
TargetedSort(level_files, target_list, priorities) ==
    Items(SortPairs([i \in 1..Len(level_files) |->
                       [key |-> TargetedKey(level_files[i], target_list,
                                            priorities),
                        item |-> level_files[i]]]))

\* one pass of the loop, listing every admitted path as target-focused
TargetedStep_listing_all(f, depth, priorities, st) ==
    With(add_content(st.ledger, FullKey(f.path), f.content), LAMBDA full :
    With(get_available_tokens(st.ledger), LAMBDA available :
    With(Get(priorities, f.path, 0), LAMBDA priority :
    With(Append(st.focused, f.path),
         LAMBDA focused :
        IF full.ok
        THEN [ledger |-> full.ledger,
              level_context |-> Append(st.level_context,
                  [path |-> f.path, type |-> "full",
                   content |-> f.content, priority |-> priority]),
              focused |-> focused,
              trace |-> Append(st.trace,
                  Attempt(f, depth, available, TRUE, FALSE))]
        ELSE With(_create_file_summary(f.path, f.content), LAMBDA summary :
             With(add_content(full.ledger, SummaryKey(f.path), summary),
                  LAMBDA short :
                 IF short.ok
                 THEN [ledger |-> short.ledger,
                       level_context |-> Append(st.level_context,
                           [path |-> f.path, type |-> "summary",
                            content |-> summary, priority |-> priority]),
                       focused |-> focused,
                       trace |-> Append(st.trace,
                           Attempt(f, depth, available, FALSE, TRUE))]
                 ELSE [ledger |-> short.ledger,
                       level_context |-> st.level_context,
                       focused |-> st.focused,
                       trace |-> Append(st.trace,
                           Attempt(f, depth, available, FALSE,
                                   FALSE))]))))))

\* one pass of the loop over selected_files of _create_targeted_context
\* (lines 207-229): file f at depth `depth`, from st
TargetedStep(f, depth, priorities, st) ==
    With(add_content(st.ledger, FullKey(f.path), f.content), LAMBDA full :
    With(get_available_tokens(st.ledger), LAMBDA available :
    With(Get(priorities, f.path, 0), LAMBDA priority :
    With(IF priority > 0 THEN Append(st.focused, f.path) ELSE st.focused,
         LAMBDA focused :
        IF full.ok
        THEN [ledger |-> full.ledger,
              level_context |-> Append(st.level_context,
                  [path |-> f.path, type |-> "full",
                   content |-> f.content, priority |-> priority]),
              focused |-> focused,
              trace |-> Append(st.trace,
                  Attempt(f, depth, available, TRUE, FALSE))]
        ELSE With(_create_file_summary(f.path, f.content), LAMBDA summary :
             With(add_content(full.ledger, SummaryKey(f.path), summary),
                  LAMBDA short :
                 IF short.ok
                 THEN [ledger |-> short.ledger,
                       level_context |-> Append(st.level_context,
                           [path |-> f.path, type |-> "summary",
                            content |-> summary, priority |-> priority]),
                       focused |-> focused,
                       trace |-> Append(st.trace,
                           Attempt(f, depth, available, FALSE, TRUE))]
                 ELSE [ledger |-> short.ledger,
                       level_context |-> st.level_context,
                       focused |-> st.focused,
                       trace |-> Append(st.trace,
                           Attempt(f, depth, available, FALSE,
                                   FALSE))]))))))

\* the loop over selected_files of _create_targeted_context
RECURSIVE TargetedAdmit(_, _, _, _, _)
TargetedAdmit(selected_files, i, depth, priorities, st) ==
    IF i > Len(selected_files) THEN st
    ELSE With(TargetedStep(selected_files[i], depth, priorities, st),
              LAMBDA next :
                 TargetedAdmit(selected_files, i + 1, depth, priorities,
                               next))

\* one pass of the loop over sorted(hierarchy.keys()) (lines 193-232)
TargetedLevel(files_data, max_files_per_level, target_list, priorities, depth, st) ==
    With(TargetedSort(LevelFiles(files_data, depth), target_list, priorities),
         LAMBDA level_files :
    With(TargetedAdmit(Take(level_files, max_files_per_level), 1, depth,
                       priorities,
                       [ledger |-> st.ledger, level_context |-> <<>>,
                        focused |-> st.focused, trace |-> st.trace]),
         LAMBDA done :
        [ledger |-> done.ledger,
         levels |-> IF done.level_context # <<>>
                    THEN Put(st.levels, depth, done.level_context)
                    ELSE st.levels,
         focused |-> done.focused,
         order |-> Put(st.order, depth, level_files),
         trace |-> done.trace]))

\* the loop over sorted(hierarchy.keys()) of _create_targeted_context
RECURSIVE TargetedLevels(_, _, _, _, _, _)
TargetedLevels(files_data, max_files_per_level, target_list, priorities, depths, st) ==
    IF depths = <<>> THEN st
    ELSE With(TargetedLevel(files_data, max_files_per_level, target_list,
                            priorities, Head(depths), st), LAMBDA next :
                 TargetedLevels(files_data, max_files_per_level, target_list,
                                priorities, Tail(depths), next))

\* lines 178-234 of _create_targeted_context: grouping, sorting and
\* admission, from ledger L and with the priorities `priorities`
TargetedAssembly(L, priorities, files_data, max_files_per_level, target_list) ==
    With(TargetedLevels(files_data, max_files_per_level, target_list,
                        priorities, SortedDepths(Depths(files_data)),
                        [ledger |-> L, levels |-> EmptyMap,
                         focused |-> <<>>, order |-> EmptyMap,
                         trace |-> <<>>]), LAMBDA st :
        [context |-> [levels |-> st.levels,
                      file_summaries |-> EmptyMap,
                      total_files |-> Len(files_data),
                      target_focused_files |-> st.focused],
         ledger |-> st.ledger, order |-> st.order, trace |-> st.trace])

\* _create_targeted_context(files_data, max_files_per_level, target_list)
\* from ledger L, priorities P, file patterns `patterns` and cache `cache`:
\* lines 170-176 hand target_list to the scorer as its file_patterns and
\* self.file_patterns as its target_list
_create_targeted_context(L, P, patterns, cache, files_data, max_files_per_level, target_list, answers) ==
    With(PreAnalyze(L, files_data.items), LAMBDA pre :
    With(IF Truthy(patterns)
         THEN analyze_file_relationships(files_data, target_list, patterns,
                                         answers, cache)
         ELSE [exc |-> "none", priorities |-> EmptyMap, log |-> <<>>,
               hit |-> FALSE, lru |-> cache], LAMBDA scored :
        IF scored.exc # "none"
        THEN [exc |-> scored.exc, context |-> [levels |-> EmptyMap],
              ledger |-> pre, target_priorities |-> P, lru |-> cache,
              order |-> EmptyMap, trace |-> <<>>, log |-> <<>>,
              scored |-> EmptyMap]
        ELSE With(Update(P, scored.priorities), LAMBDA priorities :
             With(TargetedAssembly(pre, priorities, files_data.items,
                                   max_files_per_level, target_list.items),
                  LAMBDA built :
                 [exc |-> "none", context |-> built.context,
                  ledger |-> built.ledger,
                  target_priorities |-> priorities,
                  lru |-> scored.lru, order |-> built.order,
                  trace |-> built.trace, log |-> scored.log,
                  scored |-> scored.priorities]))))

\* create_hierarchical_context with `if target_list is not None:`
dispatch_not_none(L, P, patterns, cache, files_data, max_files_per_level, target_list, answers) ==
    IF target_list.given
    THEN _create_targeted_context(L, P, patterns, cache, files_data,
                                  max_files_per_level, target_list, answers)
    ELSE _create_basic_context(L, files_data.items, max_files_per_level)
             @@ [target_priorities |-> P, lru |-> cache, log |-> <<>>,
                 scored |-> EmptyMap]

\* create_hierarchical_context(files_data, max_files_per_level, target_list)
create_hierarchical_context(L, P, patterns, cache, files_data, max_files_per_level, target_list, answers) ==
    IF Truthy(target_list)
    THEN _create_targeted_context(L, P, patterns, cache, files_data,
                                  max_files_per_level, target_list, answers)
    ELSE _create_basic_context(L, files_data.items, max_files_per_level)
             @@ [target_priorities |-> P, lru |-> cache, log |-> <<>>,
                 scored |-> EmptyMap]

\* the items of a dict as a list, in some order
RECURSIVE ItemsOf(_)
ItemsOf(m) ==
    IF DOMAIN m = {} THEN <<>>
    ELSE LET k == CHOOSE x \in DOMAIN m : TRUE
         IN  <<File(k, m[k])>> \o ItemsOf(Del(m, k))

\* set_target_priorities(target_list): clear(), then the scorer on the
\* list of ledger items; with no targets priorities stays None and
\* update(None) raises TypeError
set_target_priorities(toks, patterns, cache, target_list, answers) ==
    With(analyze_file_relationships(ListOf(ItemsOf(toks)), patterns,
                                    target_list, answers, cache),
         LAMBDA scored :
        IF Truthy(target_list)
        THEN IF scored.exc # "none"
             THEN [exc |-> scored.exc, target_priorities |-> EmptyMap,
                   lru |-> cache]
             ELSE [exc |-> "none",
                   target_priorities |-> Update(EmptyMap, scored.priorities),
                   lru |-> scored.lru]
        ELSE [exc |-> "TypeError", target_priorities |-> EmptyMap,
              lru |-> cache])

-----------------------------------------------------------------------------
(* The inputs tried *)

P_a == <<"a", ".", "p", "y">>

P_b == <<"b", ".", "p", "y">>

P_t == <<"T", "e", "s", "t", "_", "c", ".", "p", "y">>

P_d == <<"u", "/", "d", ".", "p", "y">>

T_b == <<"b">>

T_A == <<"A">>

T_x == <<"x">>

G_py == <<"*", ".", "p", "y">>

F_a == File(P_a, C_imp)

F_b == File(P_b, C_text)

F_t == File(P_t, C_long)

F_d == File(P_d, C_cls)

Files == {F_a, F_b, F_t, F_d}

\* every files_data of at most MaxFiles different files, in every order,
\* and every files_data that holds one file twice
FileLists ==
    {fs \in UNION {[1..n -> Files] : n \in 0..MaxFiles} :
        \A i, j \in 1..Len(fs) : fs[i] = fs[j] => i = j}
    \cup {<<f, f>> : f \in Files}

\* as tuples, and the short ones as lists too: a list differs from a tuple
\* in that it cannot be hashed, whatever it holds
FileArgs ==
    {TupleOf(fs) : fs \in FileLists}
    \cup {ListOf(fs) : fs \in {gs \in FileLists : Len(gs) <= 1}}

\* the target_list of a call whose files_data is files_data
TargetArgs(files_data) ==
    {None}
    \cup {[given |-> TRUE, items |-> T, frozen |-> files_data.frozen] :
            T \in {{}, {T_x}, {T_A, T_b}}}

PatternArgs == {FrozenSetOf({G_py}), FrozenSetOf({T_b})}

Caps == 0..MaxCap

Budgets == {0, 60, 120, 200}

Keys == {P_a, FullKey(P_b)}

Texts == {C_empty, C_imp, C_long}

\* the answers of the oracle, out of `answers`, at the positions where the
\* scorer, once its body runs, invokes it
AnswerSets(files_data, file_patterns_arg, target_list_arg, cache, answers) ==
    IF /\ Hashable(files_data, file_patterns_arg, target_list_arg)
       /\ CacheKey(files_data, file_patterns_arg, target_list_arg)
              \notin DOMAIN cache
       /\ Truthy(target_list_arg)
    THEN [OracleCallers(files_data.items, target_list_arg.items) -> answers]
    ELSE {EmptyMap}

-----------------------------------------------------------------------------
(* The state machine *)

NoContext == [levels |-> EmptyMap]

\* no call before this one; a ledger call keeps what the call before it
\* was given and returned
NoCall ==
    [op |-> "", key |-> <<>>, text |-> C_empty, ok |-> FALSE,
     before |-> Ledger(0, EmptyMap)]

Ret(op, exc) ==
    [op |-> op, exc |-> exc, key |-> <<>>, text |-> C_empty, ok |-> FALSE,
     files |-> <<>>, cap |-> 0, targets |-> None, patterns |-> None,
     context |-> NoContext, priorities |-> EmptyMap, order |-> EmptyMap,
     trace |-> <<>>, log |-> <<>>, scored |-> EmptyMap,
     before |-> Ledger(0, EmptyMap), prev |-> NoCall]

\* TokenManager(max_tokens=...)
Init ==
    /\ max_tokens \in Budgets
    /\ current_tokens = 0
    /\ content_tokens = EmptyMap
    /\ target_priorities = EmptyMap
    /\ file_patterns = SetOf({})
    /\ lru = EmptyMap
    /\ ret = Ret("init", "none")
    /\ calls = 0
    /\ pc = "fresh"

Now == Ledger(current_tokens, content_tokens)

LastCall ==
    [op |-> ret.op, key |-> ret.key, text |-> ret.text, ok |-> ret.ok,
     before |-> ret.before]

AddContent(key, text) ==
    /\ calls < MaxCalls
    /\ \E r \in {add_content(Now, key, text)} :
           /\ current_tokens' = r.ledger.current_tokens
           /\ content_tokens' = r.ledger.content_tokens
           /\ ret' = [Ret("add_content", "none") EXCEPT
                         !.key = key, !.text = text, !.ok = r.ok,
                         !.before = Now,
                         !.prev = LastCall]
    /\ calls' = calls + 1
    /\ UNCHANGED <<max_tokens, target_priorities, file_patterns, lru, pc>>

RemoveContent(key) ==
    /\ calls < MaxCalls
    /\ \E L \in {remove_content(Now, key)} :
           /\ current_tokens' = L.current_tokens
           /\ content_tokens' = L.content_tokens
           /\ ret' = [Ret("remove_content", "none") EXCEPT
                         !.key = key, !.before = Now, !.prev = LastCall]
    /\ calls' = calls + 1
    /\ UNCHANGED <<max_tokens, target_priorities, file_patterns, lru, pc>>

\* set_file_patterns(patterns)
SetFilePatterns(patterns) ==
    /\ pc = "fresh"
    /\ file_patterns # patterns
    /\ file_patterns' = patterns
    /\ ret' = [Ret("set_file_patterns", "none") EXCEPT !.patterns = patterns]
    /\ UNCHANGED <<max_tokens, current_tokens, content_tokens,
                   target_priorities, lru, calls, pc>>

SetTargetPriorities(target_list) ==
    /\ pc = "fresh"
    /\ \E r \in {set_target_priorities(content_tokens, file_patterns, lru,
                                       target_list, EmptyMap)} :
           /\ target_priorities' = r.target_priorities
           /\ lru' = r.lru
           /\ ret' = [Ret("set_target_priorities", r.exc) EXCEPT
                         !.targets = target_list,
                         !.priorities = r.target_priorities]
    /\ pc' = "returned"
    /\ UNCHANGED <<max_tokens, current_tokens, content_tokens, file_patterns,
                   calls>>

\* code_analyzer.analyze_file_relationships(files_data, file_patterns,
\* target_list), called on the manager's analyzer
Analyze(files_data, patterns, target_list) ==
    /\ pc = "fresh"
    /\ \E answers \in AnswerSets(files_data, patterns, target_list, lru,
                                  OracleAnswers) :
       \E r \in {analyze_file_relationships(files_data, patterns,
                                            target_list, answers, lru)} :
             /\ lru' = r.lru
             /\ ret' = [Ret("analyze_file_relationships", r.exc) EXCEPT
                           !.files = files_data.items,
                           !.targets = target_list,
                           !.patterns = patterns,
                           !.priorities = r.priorities,
                           !.log = r.log]
    /\ pc' = "returned"
    /\ UNCHANGED <<max_tokens, current_tokens, content_tokens,
                   target_priorities, file_patterns, calls>>

\* what a call of create_hierarchical_context does to the manager and
\* returns
Run(files_data, max_files_per_level, target_list) ==
    /\ \E answers \in IF Truthy(target_list) /\ Truthy(file_patterns)
                      THEN AnswerSets(files_data, target_list, file_patterns,
                                      lru, ScoringAnswers)
                      ELSE {EmptyMap} :
       \E r \in {create_hierarchical_context(Now, target_priorities,
                      file_patterns, lru, files_data, max_files_per_level,
                      target_list, answers)} :
             /\ current_tokens' = r.ledger.current_tokens
             /\ content_tokens' = r.ledger.content_tokens
             /\ target_priorities' = r.target_priorities
             /\ lru' = r.lru
             /\ ret' = [Ret("create_hierarchical_context", r.exc) EXCEPT
                           !.files = files_data.items,
                           !.cap = max_files_per_level,
                           !.targets = target_list,
                           !.patterns = file_patterns,
                           !.context = r.context,
                           !.priorities = r.target_priorities,
                           !.order = r.order,
                           !.trace = r.trace,
                           !.log = r.log,
                           !.scored = r.scored,
                           !.before = Now]
    /\ UNCHANGED <<max_tokens, file_patterns>>

CreateHierarchicalContext(files_data, max_files_per_level, target_list) ==
    /\ pc = "fresh"
    /\ Run(files_data, max_files_per_level, target_list)
    /\ pc' = "returned"
    /\ UNCHANGED calls

\* one more call of create_hierarchical_context on the same manager
CreateAgain(files_data, max_files_per_level, target_list) ==
    /\ calls < MaxRuns
    /\ Run(files_data, max_files_per_level, target_list)
    /\ calls' = calls + 1
    /\ UNCHANGED pc

\* the files_data handed to the scorer directly
ScoredArgs == {fa \in FileArgs : Len(fa.items) < MaxFiles}

Next ==
    \/ \E patterns \in PatternArgs : SetFilePatterns(patterns)
    \/ \E target_list \in TargetArgs(ListOf(<<>>)) :
           SetTargetPriorities(target_list)
    \/ \E files_data \in ScoredArgs :
       \E target_list \in TargetArgs(files_data) :
           Analyze(files_data, FrozenSetOf({G_py}), target_list)
    \/ \E files_data \in FileArgs, cap \in Caps :
       \E target_list \in TargetArgs(files_data) :
           CreateHierarchicalContext(files_data, cap, target_list)

\* a fresh manager is given its file patterns, or left without, and one
\* scoring or assembly call is made on it
Spec == Init /\ [][Next]_vars

LedgerNext ==
    \/ \E key \in Keys, text \in Texts : AddContent(key, text)
    \/ \E key \in Keys : RemoveContent(key)

\* the ledger calls on a fresh manager
LedgerSpec == Init /\ [][LedgerNext]_vars

\* the answers of the oracle to one file: numbers below, inside and above
\* the range 0.0..0.4 it is asked for, "nan", other text, an exception
FileAnswers == {Num(0 - 30), Num(25), Num(90), NanText, NotANumber, Raises}

\* the files a scoring step is made for: every content under a path that
\* matches the target "b" and under one that does not
ScoredFiles == {File(path, content) : path \in {P_a, P_b}, content \in Contents}

\* the other files of self._files_data: at most MaxOthers, of a path that
\* matches the target "b" or of one that matches no target
Corpora == UNION {[1..n -> {F_b, F_d}] : n \in 0..MaxOthers}

TargetSets == {{}, {T_x}, {T_A, T_b}}

\* score = self._analyze_file_relationships(path, content, target_list) for
\* the file f of self._files_data = <<f>> \o others
ScoreFile(f, others, target_list, answer) ==
    /\ pc = "fresh"
    /\ \E r \in {_analyze_file_relationships(f.path, f.content, target_list,
                      <<f>> \o others, answer)} :
          ret' = [Ret("_analyze_file_relationships", "none") EXCEPT
                     !.key = f.path,
                     !.text = f.content,
                     !.files = <<f>> \o others,
                     !.targets = FrozenSetOf(target_list),
                     !.log = <<[path |-> f.path,
                                score |-> r.score, invoked |-> r.invoked,
                                caught |-> r.caught, answer |-> answer]>>]
    /\ pc' = "returned"
    /\ UNCHANGED <<max_tokens, current_tokens, content_tokens,
                   target_priorities, file_patterns, lru, calls>>

ScoreNext ==
    \E f \in ScoredFiles, others \in Corpora, target_list \in TargetSets,
       answer \in FileAnswers :
        ScoreFile(f, others, target_list, answer)

\* a.py with another content
F_a2 == File(P_a, C_text)

\* the files_data and the targets of the calls made one after another
RunFiles == {TupleOf(<<F_a>>), TupleOf(<<F_a2>>), TupleOf(<<F_b, F_a2>>)}

RunTargets == {FrozenSetOf({T_x}), FrozenSetOf({T_A, T_b})}

RunsNext ==
    \/ \E patterns \in PatternArgs : SetFilePatterns(patterns)
    \/ \E files_data \in RunFiles, target_list \in RunTargets :
           CreateAgain(files_data, MaxCap, target_list)

\* up to MaxRuns calls of create_hierarchical_context on one manager, whose
\* file patterns are set, or set again, in between
RunsSpec == Init /\ [][RunsNext]_vars

\* one file of a corpus scored by a fresh analyzer
ScoreSpec == Init /\ [][ScoreNext]_vars

-----------------------------------------------------------------------------
(* What the properties below speak of *)

\* the last operation was create_hierarchical_context and it returned
Created == ret.op = "create_hierarchical_context" /\ ret.exc = "none"

\* ... and it took the targeted path
Targeted == Created /\ Truthy(ret.targets)

\* the entry list of level d of the returned context
LevelOf(d) ==
    IF d \in DOMAIN ret.context.levels THEN ret.context.levels[d] ELSE <<>>

\* every place <<depth, index>> of an entry in the returned context
Positions ==
    UNION {{<<d, i>> : i \in 1..Len(ret.context.levels[d])} :
              d \in DOMAIN ret.context.levels}

EntryAt(pos) == ret.context.levels[pos[1]][pos[2]]

DistinctPaths(files) ==
    \A i, j \in 1..Len(files) : files[i].path = files[j].path => i = j

\* the admission attempts of the last run at depth d, in order
AttemptsAt(d) == SelectSeq(ret.trace, LAMBDA a : a.depth = d)

\* the file the last run was given under this path
FileOf(path) ==
    ret.files[CHOOSE i \in 1..Len(ret.files) : ret.files[i].path = path]

-----------------------------------------------------------------------------
(* C1 *)

\* C1: in every state reached from a fresh manager by add_content and
\* remove_content calls, re-admission of a present key included,
\* current_tokens is at most max_tokens.
C1_WithinBudget == current_tokens <= max_tokens

\* a key that was already charged has been admitted again
C1_Readmitted ==
    /\ ret.op = "add_content" /\ ret.ok
    /\ ret.key \in DOMAIN ret.before.content_tokens
    /\ ret.before.content_tokens[ret.key] > 0
    /\ count_tokens(ret.text) > 0
    /\ current_tokens > ret.before.current_tokens

-----------------------------------------------------------------------------
(* C2 *)

\* C2: a step of add_content that returns False was over the ceiling and
\* leaves current_tokens and the whole ledger as they were, also when the
\* key was present; the same call made again returns False again and
\* changes nothing.
C2_RejectionChangesNothing ==
    [][(calls' = calls + 1 /\ ret'.op = "add_content" /\ ~ret'.ok) =>
          /\ current_tokens + count_tokens(ret'.text) > max_tokens
          /\ current_tokens' = current_tokens
          /\ content_tokens' = content_tokens
          /\ add_content(Ledger(current_tokens', content_tokens'),
                         ret'.key, ret'.text)
                = [ok |-> FALSE,
                   ledger |-> Ledger(current_tokens, content_tokens)]]_vars

\* add_content was rejected for a key the ledger holds
C2_RejectedPresentKey ==
    /\ ret.op = "add_content" /\ ~ret.ok
    /\ ret.key \in DOMAIN content_tokens
    /\ content_tokens[ret.key] # count_tokens(ret.text)

-----------------------------------------------------------------------------
(* C3 *)

\* C3: after a run of create_hierarchical_context, in either mode, over
\* files with pairwise distinct paths, every path is in at most one entry
\* over all levels, and that entry is of type full or of type summary.
C3_OneEntryPerPath ==
    (Created /\ DistinctPaths(ret.files)) =>
        /\ \A p, q \in Positions :
               EntryAt(p).path = EntryAt(q).path => p = q
        /\ \A p \in Positions :
               /\ EntryAt(p).type \in {"full", "summary"}
               /\ EntryAt(p).type = "summary"
                      <=> EntryAt(p).content.kind = "summary"

\* a run over several distinct paths, at two depths, gave a full and a
\* summary entry
C3_FullAndSummary ==
    /\ Created /\ DistinctPaths(ret.files)
    /\ Cardinality(Depths(ret.files)) = 2
    /\ \E p, q \in Positions :
           EntryAt(p).type = "full" /\ EntryAt(q).type = "summary"

-----------------------------------------------------------------------------
(* C4 *)

\* C4: for a non-empty target set, analyze_file_relationships gives every
\* file whose path contains a target, whatever the case, the priority 1.0
\* (1000 thousandths), and the oracle is not invoked while that file is
\* scored.
C4_DirectMatchIsOne ==
    (/\ ret.op = "analyze_file_relationships" /\ ret.exc = "none"
     /\ Truthy(ret.targets)) =>
        \A i \in 1..Len(ret.log) :
            MatchesTarget(ret.log[i].path, ret.targets.items) =>
                /\ Get(ret.priorities, ret.log[i].path, 0) = 1000
                /\ ~ret.log[i].invoked

-----------------------------------------------------------------------------
(* C5 *)

\* the priorities the scorer gives the files of the last run against its
\* targets, for the oracle answers `answers`
ScoredAgainstTargets(answers) ==
    ScoreBody(ret.files, ret.targets.items, answers).priorities

\* C5: in targeted mode the priority written into every entry is the one
\* the scorer gives that file against the run's targets (0 when the scorer
\* omits the file), for some answers of the oracle, whatever file patterns
\* the manager holds.
C5_PrioritiesOfTargets ==
    Targeted =>
        \E answers \in [OracleCallers(ret.files, ret.targets.items)
                            -> OracleAnswers] :
            \A p \in Positions :
                EntryAt(p).priority
                    = Get(ScoredAgainstTargets(answers), EntryAt(p).path, 0)

-----------------------------------------------------------------------------
(* C6 *)

\* C6: in a run of either mode, every file within its level's cap whose
\* full content is over the budget left when it is tried, while its summary
\* is not, is in its level as a summary entry.
C6_SummaryFallback ==
    Created =>
        \A k \in 1..Len(ret.trace) :
            LET a == ret.trace[k]
                summary == _create_file_summary(a.file.path, a.file.content)
            IN  (/\ count_tokens(a.file.content) > a.available
                 /\ count_tokens(summary) <= a.available) =>
                    \E i \in 1..Len(LevelOf(a.depth)) :
                        /\ LevelOf(a.depth)[i].path = a.file.path
                        /\ LevelOf(a.depth)[i].type = "summary"
                        /\ LevelOf(a.depth)[i].content = summary

\* a run admitted one file in full and, after it, another as a summary
C6_SummaryAfterFull ==
    /\ Created
    /\ \E k \in 2..Len(ret.trace) :
           /\ ret.trace[k - 1].full
           /\ ~ret.trace[k].full /\ ret.trace[k].summary
           /\ \E p \in Positions :
                  /\ EntryAt(p).path = ret.trace[k].file.path
                  /\ EntryAt(p).type = "summary"

-----------------------------------------------------------------------------
(* C7 *)

\* how many entries of the returned context have this path
EntriesWithPath(path) ==
    Cardinality({p \in Positions : EntryAt(p).path = path})

\* how many of the first ret.cap files of depth d's sort order have it
RankedWithPath(d, path) ==
    Cardinality({j \in 1..Min(ret.cap, Len(ret.order[d])) :
                    ret.order[d][j].path = path})

\* no file ranked after the cap at depth d has an entry of its own
NoneBeyondCap(d) ==
    \A i \in (ret.cap + 1)..Len(ret.order[d]) :
        EntriesWithPath(ret.order[d][i].path)
            <= RankedWithPath(d, ret.order[d][i].path)

\* the files tried at depth d are the first ret.cap files of its sort order
FirstRankedTried(d) ==
    /\ Len(AttemptsAt(d)) = ret.cap
    /\ \A i \in 1..ret.cap : AttemptsAt(d)[i].file = ret.order[d][i]

\* the attempts at depth d that gave an entry
AdmittedAt(d) == SelectSeq(AttemptsAt(d), LAMBDA a : a.full \/ a.summary)

\* C7 as stated: every depth holding more than N = max_files_per_level
\* files has exactly N entries in the returned context, whatever the budget,
\* and no file ranked after N in its sort order appears.
C7_ExactlyCap ==
    Created =>
        \A d \in DOMAIN ret.order :
            Len(ret.order[d]) > ret.cap =>
                Len(LevelOf(d)) = ret.cap /\ NoneBeyondCap(d)

\* C7: every depth holding more than N = max_files_per_level files has at
\* most N entries in the returned context: one for each of the N first
\* ranked files that the budget admits in full or as a summary, so exactly
\* N only when it admits all of them; no file ranked after N appears.
C7_AtMostCap ==
    Created =>
        \A d \in DOMAIN ret.order :
            Len(ret.order[d]) > ret.cap =>
                /\ Len(LevelOf(d)) <= ret.cap
                /\ FirstRankedTried(d)
                /\ Len(LevelOf(d)) = Len(AdmittedAt(d))
                /\ \A i \in 1..Len(LevelOf(d)) :
                       LevelOf(d)[i].path = AdmittedAt(d)[i].file.path
                /\ NoneBeyondCap(d)

\* three files at one depth under a cap of two, and the budget admits one
C7_CappedAndShort ==
    /\ Created
    /\ \E d \in DOMAIN ret.order :
           /\ Len(ret.order[d]) = 3 /\ ret.cap = 2
           /\ DistinctPaths(ret.order[d])
           /\ Len(LevelOf(d)) = 1

-----------------------------------------------------------------------------
(* C8 *)

\* the key of the sort order of a targeted level, for one of its entries
EntryKey(e) ==
    <<0 - Cardinality({t \in ret.targets.items :
                          Contains(Lower(t), Lower(e.path))}),
      0 - e.priority,
      IF IsTest(e.path) THEN 1 ELSE 0,
      0 - StrLen(FileOf(e.path).content)>>

\* C8: in every level of a targeted context, of any two entries the earlier
\* one does not come after the later one under the key (targets contained
\* in the path, more first; priority, higher first; no "test" in the path
\* first; content length, longer first).
C8_LevelOrder ==
    Targeted =>
        \A d \in DOMAIN ret.context.levels :
            \A i, j \in 1..Len(LevelOf(d)) :
                i < j => ~TupleLess(EntryKey(LevelOf(d)[j]),
                                    EntryKey(LevelOf(d)[i]))

\* no direct matches; a short file and a longer test file of one priority,
\* in that order, then a file that is longer than the first and has a lower
\* priority
C8_ThreeInOrder ==
    /\ Targeted
    /\ \E d \in DOMAIN ret.context.levels :
           /\ Len(LevelOf(d)) = 3
           /\ \A i \in 1..3 : EntryKey(LevelOf(d)[i])[1] = 0
           /\ LevelOf(d)[1].priority = LevelOf(d)[2].priority
           /\ ~IsTest(LevelOf(d)[1].path) /\ IsTest(LevelOf(d)[2].path)
           /\ StrLen(FileOf(LevelOf(d)[1].path).content)
                  < StrLen(FileOf(LevelOf(d)[2].path).content)
           /\ LevelOf(d)[3].priority < LevelOf(d)[2].priority
           /\ LevelOf(d)[3].priority > 0
           /\ StrLen(FileOf(LevelOf(d)[3].path).content)
                  > StrLen(FileOf(LevelOf(d)[1].path).content)

-----------------------------------------------------------------------------
(* C9 *)

-----------------------------------------------------------------------------
(* C10 *)

\* C10: set_target_priorities with an empty or absent target list completes
\* normally and leaves the priority map empty.
C10_NoTargetsNoError ==
    (ret.op = "set_target_priorities" /\ ~Truthy(ret.targets)) =>
        ret.exc = "none" /\ target_priorities = EmptyMap

-----------------------------------------------------------------------------
(* C11 *)

Analyzed == ret.op = "analyze_file_relationships"

\* the oracle was asked about the i-th file of the run and gave no number:
\* it answered with other text, or it failed
OracleFailedAt(i) ==
    /\ ret.log[i].invoked
    /\ ret.log[i].answer.kind \in {"text", "raise"}

\* the i-th file of the run was scored and its total, when above 0, is the
\* priority of its path, unless a later file of the same path took it over
ScoredAt(i) ==
    /\ i \in DOMAIN ret.log
    /\ ret.log[i].path = ret.files[i].path
    /\ (/\ total(ret.log[i].score) > 0
        /\ \A j \in (i + 1)..Len(ret.log) :
               ret.log[j].path = ret.log[i].path =>
                   total(ret.log[j].score) = 0)
           => Get(ret.priorities, ret.log[i].path, 0)
                  = total(ret.log[i].score)

\* C11: when the oracle answers a file with text that is no number, or
\* fails, the semantic sub-score of that file is 0.0, no exception leaves
\* analyze_file_relationships and the files after it are scored all the same.
C11_OracleFailureIsZero ==
    Analyzed =>
        \A i \in DOMAIN ret.log :
            OracleFailedAt(i) =>
                /\ ret.log[i].score.semantic = 0
                /\ ret.exc = "none"
                /\ \A j \in i..Len(ret.files) : ScoredAt(j)

C11_FailedThenScored ==
    /\ Analyzed
    /\ \E i, k \in DOMAIN ret.log :
           /\ OracleFailedAt(i) /\ ret.log[i].answer.kind = "raise"
           /\ OracleFailedAt(k) /\ ret.log[k].answer.kind = "text"
    /\ \E i \in DOMAIN ret.log :
           /\ OracleFailedAt(i)
           /\ \E j \in (i + 1)..Len(ret.files) :
                  total(ret.log[j].score) > 0

-----------------------------------------------------------------------------
(* C12 *)

Scored == ret.op = "_analyze_file_relationships"

\* the score the scoring step returned
TheScore == ret.log[1].score

\* C12: every score the scorer produces has a total between 0 and 0.73,
\* direct_import between 0 and 0.8, inheritance between 0 and 0.9,
\* function_calls between 0 and 0.7 and semantic between 0 and 0.4,
\* whatever number the oracle answers.
C12_ScoreBounds ==
    Scored =>
        /\ 0 <= total(TheScore) /\ total(TheScore) <= 730
        /\ 0 <= TheScore.direct_import /\ TheScore.direct_import <= 80
        /\ 0 <= TheScore.inheritance /\ TheScore.inheritance <= 90
        /\ 0 <= TheScore.function_calls /\ TheScore.function_calls <= 70
        /\ 0 <= TheScore.semantic /\ TheScore.semantic <= 40

-----------------------------------------------------------------------------
(* C13 *)

\* the last two calls were remove_content(key) and add_content(key, text),
\* and before them the ledger held key with the token count of text
RemovedAndAddedBack ==
    /\ ret.op = "add_content"
    /\ ret.prev.op = "remove_content"
    /\ ret.prev.key = ret.key
    /\ ret.key \in DOMAIN ret.prev.before.content_tokens
    /\ ret.prev.before.content_tokens[ret.key] = count_tokens(ret.text)

\* C13: removing a content and adding the same content back under the same
\* key succeeds and leaves current_tokens where it was before the removal.
C13_RoundTrip ==
    RemovedAndAddedBack =>
        /\ ret.ok
        /\ current_tokens = ret.prev.before.current_tokens
        /\ content_tokens = ret.prev.before.content_tokens

C13_RoundTripDone ==
    /\ RemovedAndAddedBack
    /\ count_tokens(ret.text) > 0
    /\ ret.before.current_tokens > 0

-----------------------------------------------------------------------------
(* C14 *)

ContextFields == {"levels", "file_summaries", "total_files",
                  "target_focused_files"}

\* the field the entries call "type" is the kind of the entry
EntryFields == {"path", "type", "content", "priority"}

\* C14: every context create_hierarchical_context returns, with or without
\* targets, has the fields levels, file_summaries, total_files and
\* target_focused_files, and every entry of every level has a path, a kind
\* (full or summary), a content and a priority.
C14_ContextShape ==
    Created =>
        /\ ContextFields \subseteq DOMAIN ret.context
        /\ \A pos \in Positions :
               /\ EntryFields \subseteq DOMAIN EntryAt(pos)
               /\ EntryAt(pos).type \in {"full", "summary"}

-----------------------------------------------------------------------------
(* C15 *)

\* sum(content_tokens.values())
RECURSIVE LedgerSum(_)
LedgerSum(toks) ==
    IF DOMAIN toks = {} THEN 0
    ELSE LET k == CHOOSE x \in DOMAIN toks : TRUE
         IN  toks[k] + LedgerSum(Del(toks, k))

\* the last two calls were an add_content that succeeded for a key the
\* ledger held and a remove_content of that key
ReAddedThenRemoved ==
    /\ ret.op = "remove_content"
    /\ ret.prev.op = "add_content" /\ ret.prev.ok
    /\ ret.prev.key = ret.key
    /\ ret.key \in DOMAIN ret.prev.before.content_tokens

\* the count the ledger held for the key before it was admitted again
EarlierCount == ret.prev.before.content_tokens[ret.key]

\* the count of the content it was admitted with again
LatestCount == count_tokens(ret.prev.text)

\* C15 as stated: after add_content succeeded for a present key and
\* remove_content(key) followed, current_tokens is above the sum of the
\* counts the ledger records.
C15_AboveTheSum ==
    ReAddedThenRemoved => current_tokens > LedgerSum(content_tokens)

\* C15: add_content for a present key adds the latest count on top of the
\* earlier one and records only the latest; the remove_content(key) that
\* follows lowers current_tokens by the latest count only, which leaves
\* current_tokens above the sum of the recorded counts by the earlier count
\* more than before, hence strictly above when the earlier count is not 0.
C15_DoubleCount ==
    ReAddedThenRemoved =>
        /\ ret.before.current_tokens
               = ret.prev.before.current_tokens + LatestCount
        /\ ret.before.content_tokens[ret.key] = LatestCount
        /\ current_tokens = ret.before.current_tokens - LatestCount
        /\ current_tokens - LedgerSum(content_tokens)
               = (ret.prev.before.current_tokens
                  - LedgerSum(ret.prev.before.content_tokens))
                 + EarlierCount
        /\ current_tokens >= LedgerSum(content_tokens) + EarlierCount
        /\ EarlierCount > 0 => current_tokens > LedgerSum(content_tokens)

C15_CountedTwice ==
    /\ ReAddedThenRemoved
    /\ EarlierCount > 0 /\ LatestCount > 0
    /\ EarlierCount # LatestCount
    /\ current_tokens > LedgerSum(content_tokens)

-----------------------------------------------------------------------------
(* C16 *)

\* C16: a file during whose scoring an exception was caught (a syntax
\* error, a failure of the oracle call) has a score of four zeros and is
\* not in the priority map.
C16_CaughtIsAllZero ==
    (Analyzed /\ DistinctPaths(ret.files)) =>
        \A i \in DOMAIN ret.log :
            ret.log[i].caught =>
                /\ ret.log[i].score = ZeroScore
                /\ ret.log[i].path \notin DOMAIN ret.priorities

-----------------------------------------------------------------------------
(* C17 *)

\* some file of the corpus has a path that matches a target
CorpusHasTarget == HasTargetContext(ret.files, ret.targets.items)

\* the structural step of the scored file: whether it raised, and the
\* total of the three sub-scores it set
StructuralStep == Structural(ret.key, ret.text, ret.targets.items)

OracleInvoked == ret.log[1].invoked

\* C17 as stated: the oracle is not invoked, and the semantic sub-score is
\* 0.0, when no file of the corpus matches a target or the structural
\* sub-scores total at least 0.3; in every other case it is invoked.
C17_InvokedInEveryOtherCase ==
    Scored =>
        IF ~CorpusHasTarget \/ total(StructuralStep.score) >= 300
        THEN ~OracleInvoked /\ TheScore.semantic = 0
        ELSE OracleInvoked

\* C17: the oracle is not invoked, and the semantic sub-score is 0.0, when
\* no file of the corpus matches a target, when the structural sub-scores
\* total at least 0.3, or when the structural step raised (a syntax error);
\* in every other case it is invoked, once.
C17_OracleInvocation ==
    Scored =>
        IF \/ ~CorpusHasTarget
           \/ total(StructuralStep.score) >= 300
           \/ StructuralStep.exc
        THEN ~OracleInvoked /\ TheScore.semantic = 0
        ELSE OracleInvoked

C17_StrongStructureSkipsOracle ==
    /\ Scored
    /\ CorpusHasTarget
    /\ total(StructuralStep.score) >= 300
    /\ ret.log[1].answer = Num(25)
    /\ ~OracleInvoked

-----------------------------------------------------------------------------
(* C18 *)

\* the paths of the entries of these levels whose priority is above 0, level
\* after level, in the order of the entries
RECURSIVE FocusedPaths(_)
FocusedPaths(depths) ==
    IF depths = <<>> THEN <<>>
    ELSE LET focused == SelectSeq(LevelOf(Head(depths)),
                                  LAMBDA entry : entry.priority > 0)
         IN  [i \in 1..Len(focused) |-> focused[i].path]
             \o FocusedPaths(Tail(depths))

\* C18: in a targeted context target_focused_files is the sequence of the
\* paths of the entries, full or summary, whose priority is above 0, by
\* ascending depth and in the order of the entries within a level; the path
\* of an omitted file or of an entry of priority 0 is not in it.
C18_FocusedFiles ==
    Targeted =>
        /\ ret.context.target_focused_files
               = FocusedPaths(SortedDepths(DOMAIN ret.context.levels))
        /\ \A i \in DOMAIN ret.context.target_focused_files :
               \E pos \in Positions :
                   /\ EntryAt(pos).path = ret.context.target_focused_files[i]
                   /\ EntryAt(pos).priority > 0

C18_FocusedOverTwoLevels ==
    /\ Targeted
    /\ \E pos, other \in Positions :
           /\ pos[1] < other[1]
           /\ EntryAt(pos).priority > 0 /\ EntryAt(other).priority > 0
    /\ \E pos \in Positions : EntryAt(pos).priority = 0
    /\ Len(ret.context.target_focused_files) >= 2

-----------------------------------------------------------------------------
(* C19 *)

\* C19: in every run of a sequence of create_hierarchical_context calls on
\* one manager, the priority of every entry is the one the scorer gave the
\* path for this run's files and targets, 0 if it gave none, and
\* target_focused_files holds only paths it gave a priority; nothing
\* computed in an earlier run shows.
C19_ScoresOfThisRun ==
    Targeted =>
        /\ \A pos \in Positions :
               EntryAt(pos).priority = Get(ret.scored, EntryAt(pos).path, 0)
        /\ \A i \in DOMAIN ret.context.target_focused_files :
               ret.context.target_focused_files[i] \in DOMAIN ret.scored

-----------------------------------------------------------------------------
(* C20 *)

\* the ledger key under which an entry of the context was admitted
LedgerKeyOf(entry) ==
    IF entry.type = "full" THEN FullKey(entry.path)
    ELSE SummaryKey(entry.path)

\* the tokens of the contents of the entries at these places
RECURSIVE EntryTokens(_)
EntryTokens(places) ==
    IF places = {} THEN 0
    ELSE LET pos == CHOOSE x \in places : TRUE
         IN  count_tokens(EntryAt(pos).content)
             + EntryTokens(places \ {pos})

\* C20: after a run of create_hierarchical_context, in either mode, that
\* started from an empty ledger over files of distinct paths, the keys of
\* the ledger are the full_ or summary_ keys of the entries of the returned
\* context, and current_tokens is the sum of the token counts of the
\* contents of those entries.
C20_ChargedForOutputOnly ==
    (/\ Created
     /\ ret.before = Ledger(0, EmptyMap)
     /\ DistinctPaths(ret.files)) =>
        /\ DOMAIN content_tokens
               = {LedgerKeyOf(EntryAt(pos)) : pos \in Positions}
        /\ current_tokens = EntryTokens(Positions)

-----------------------------------------------------------------------------
(* C21 *)

\* the tokens still available when the run returned
AvailableAtEnd == max_tokens - current_tokens

\* the token counts of a file's full content and of its summary
FullTokens(f) == count_tokens(f.content)

SummaryTokens(f) == count_tokens(_create_file_summary(f.path, f.content))

\* the files of depth d that were within the cap: the first ret.cap of its
\* sort order
WithinCap(d) ==
    {ret.order[d][j] : j \in 1..Min(ret.cap, Len(ret.order[d]))}

\* the attempt that gave the entry at this place
AttemptOf(pos) == AdmittedAt(pos[1])[pos[2]]

\* C21: after a run of create_hierarchical_context, every file that was
\* within the cap of its level and has no entry in the returned context has
\* a full content and a summary that each count more tokens than are still
\* available, as they did when the file was tried; and every file with a
\* summary entry has a full content that counts more tokens than were
\* available when it was tried.
C21_OmittedForLackOfBudget ==
    Created =>
        /\ \A d \in DOMAIN ret.order :
               \A f \in WithinCap(d) :
                   EntriesWithPath(f.path) = 0 =>
                       /\ FullTokens(f) > AvailableAtEnd
                       /\ SummaryTokens(f) > AvailableAtEnd
        /\ \A i \in DOMAIN ret.trace :
               (~ret.trace[i].full /\ ~ret.trace[i].summary) =>
                   /\ FullTokens(ret.trace[i].file) > ret.trace[i].available
                   /\ SummaryTokens(ret.trace[i].file)
                          > ret.trace[i].available
                   /\ ret.trace[i].available >= AvailableAtEnd
        /\ \A pos \in Positions :
               EntryAt(pos).type = "summary" =>
                   /\ AttemptOf(pos).file.path = EntryAt(pos).path
                   /\ AttemptOf(pos).summary
                   /\ FullTokens(AttemptOf(pos).file)
                          > AttemptOf(pos).available

\* a run left budget over, gave one file a summary entry and omitted
\* another that was within the cap
C21_OmittedWithBudgetLeft ==
    /\ Created
    /\ AvailableAtEnd > 0
    /\ \E pos \in Positions : EntryAt(pos).type = "summary"
    /\ \E d \in DOMAIN ret.order :
           \E f \in WithinCap(d) : EntriesWithPath(f.path) = 0

====
